---- MODULE Spec2Model ----
(***************************************************************************)
(* Payment transaction lifecycle of the payments portal: the make-payment  *)
(* and cancel route handlers (server/routes/payments.js), the Transaction  *)
(* model with its pre-save hook and markAs* methods                        *)
(* (server/models/Transaction.js) and the amount/SWIFT validators          *)
(* (server/middleware/inputValidation.js); the register, login,           *)
(* change-password and forgot-password handlers (server/routes/auth.js),   *)
(* the User model (server/models/User.js) and the auth middleware          *)
(* (server/middleware/auth.js); the response interceptor of the client's   *)
(* API instance (its 401 handling and token refresh).                      *)
(*                                                                         *)
(* Numbers.  JavaScript numbers that carry money are modelled as integers  *)
(* counted in thousandths of a currency unit (1.00 is 1000), so that an    *)
(* input with three fractional digits such as "500.005" keeps its value.   *)
(* NaN is a separate value: every comparison with it is false.             *)
(*                                                                         *)
(* Strings.  A request field is a tuple of one-character strings, so that  *)
(* parseFloat, trim, toUpperCase and the regular expressions are computed  *)
(* character by character, as the code does.  The alphabet of the inputs   *)
(* is digits, letters other than "e"/"E" in a numeric field, ".", "+",     *)
(* "-" and the blank; numeric inputs carry at most three fractional        *)
(* digits and no exponent.  The remaining request fields (currency,        *)
(* recipient name, account number, bank name, ...) are fixed to values     *)
(* that satisfy the schema and are not part of the state.                  *)
(***************************************************************************)
EXTENDS Integers, Sequences, FiniteSets, TLC

VARIABLES txs, now, slots, users, auths, tokens, client

\* The state of the auth routes: the stored users, the auth requests in
\* flight and the access tokens issued so far.
authVars == <<users, auths, tokens>>

vars == <<txs, now, slots, authVars, client>>

-----------------------------------------------------------------------------
(* Characters *)

Digits == {"0", "1", "2", "3", "4", "5", "6", "7", "8", "9"}

DigitVal == [c \in Digits |->
               CASE c = "0" -> 0 [] c = "1" -> 1 [] c = "2" -> 2 [] c = "3" -> 3
                 [] c = "4" -> 4 [] c = "5" -> 5 [] c = "6" -> 6 [] c = "7" -> 7
                 [] c = "8" -> 8 [] c = "9" -> 9]

UpperSeq == <<"A", "B", "C", "D", "E", "F", "G", "H", "I", "J", "K", "L", "M",
              "N", "O", "P", "Q", "R", "S", "T", "U", "V", "W", "X", "Y", "Z">>

LowerSeq == <<"a", "b", "c", "d", "e", "f", "g", "h", "i", "j", "k", "l", "m",
              "n", "o", "p", "q", "r", "s", "t", "u", "v", "w", "x", "y", "z">>

Upper == {UpperSeq[i] : i \in DOMAIN UpperSeq}

Lower == {LowerSeq[i] : i \in DOMAIN LowerSeq}

\* String.prototype.toUpperCase on one character.
UpperChar(c) ==
  IF c \in Lower
    THEN UpperSeq[CHOOSE i \in DOMAIN LowerSeq : LowerSeq[i] = c]
    ELSE c

\* ToUpperCase leaving every character as it is.
ToUpperCaseNone(s) == s

\* String.prototype.toUpperCase
ToUpperCase(s) == [i \in DOMAIN s |-> UpperChar(s[i])]

\* String.prototype.trim: the blanks at both ends are dropped.
RECURSIVE TrimStart(_)
TrimStart(s) ==
  IF s # <<>> /\ Head(s) = " " THEN TrimStart(Tail(s)) ELSE s

RECURSIVE TrimEnd(_)
TrimEnd(s) ==
  IF s # <<>> /\ s[Len(s)] = " " THEN TrimEnd(SubSeq(s, 1, Len(s) - 1)) ELSE s

Trim(s) == TrimEnd(TrimStart(s))

\* The number of consecutive decimal digits of s from position i on.
RECURSIVE DigitRun(_, _)
DigitRun(s, i) ==
  IF i <= Len(s) /\ s[i] \in Digits THEN 1 + DigitRun(s, i + 1) ELSE 0

\* The value of the digit string s[i .. i+n-1].
RECURSIVE DigitsValue(_, _, _)
DigitsValue(s, i, n) ==
  IF n = 0 THEN 0
  ELSE 10 * DigitsValue(s, i, n - 1) + DigitVal[s[i + n - 1]]

-----------------------------------------------------------------------------
(* JavaScript numbers *)

NaN == [nan |-> TRUE, v |-> 0]

Num(n) == [nan |-> FALSE, v |-> n]

JsLt(a, b) == ~a.nan /\ ~b.nan /\ a.v < b.v

JsGt(a, b) == ~a.nan /\ ~b.nan /\ a.v > b.v

JsLe(a, b) == ~a.nan /\ ~b.nan /\ a.v <= b.v

JsAdd(a, b) == IF a.nan \/ b.nan THEN NaN ELSE Num(a.v + b.v)

\* The thousandths written by the first three fractional digits s[i..i+n-1].
FracThousandths(s, i, n) ==
  (IF n >= 1 THEN 100 * DigitVal[s[i]] ELSE 0)
  + (IF n >= 2 THEN 10 * DigitVal[s[i + 1]] ELSE 0)
  + (IF n >= 3 THEN DigitVal[s[i + 2]] ELSE 0)

\* parseFloat: leading blanks are skipped, then the longest prefix that is a
\* decimal literal (sign, digits, ".", digits) is converted; NaN when there
\* is none.  What follows the literal is ignored.
ParseFloat(str) ==
  LET s    == TrimStart(str)
      sgn  == IF s # <<>> /\ s[1] \in {"+", "-"} THEN 1 ELSE 0
      neg  == s # <<>> /\ s[1] = "-"
      ni   == DigitRun(s, sgn + 1)
      dot  == sgn + ni + 1
      hasDot == dot <= Len(s) /\ s[dot] = "."
      nf   == IF hasDot THEN DigitRun(s, dot + 1) ELSE 0
      mag  == 1000 * DigitsValue(s, sgn + 1, ni) + FracThousandths(s, dot + 1, nf)
  IN  IF ni = 0 /\ nf = 0 THEN NaN
      ELSE Num(IF neg THEN 0 - mag ELSE mag)

-----------------------------------------------------------------------------
(* Validation patterns *)

\* patterns.amount: /^\d+(\.\d{1,2})?$/
AmountPattern(s) ==
  LET ni == DigitRun(s, 1)
      nf == DigitRun(s, ni + 2)
  IN  /\ ni >= 1
      /\ \/ Len(s) = ni
         \/ /\ Len(s) > ni
            /\ s[ni + 1] = "."
            /\ nf \in 1..2
            /\ Len(s) = ni + 1 + nf

\* patterns.swiftCode and the route's own test: /^[A-Z]{6}[A-Z0-9]{2,5}$/
SwiftPattern(s) ==
  /\ Len(s) \in 8..11
  /\ \A i \in 1..6 : s[i] \in Upper
  /\ \A i \in 7..Len(s) : s[i] \in Upper \cup Digits

-----------------------------------------------------------------------------
(* Configuration of the routes, in thousandths *)

minAmount == 1000

maxAmount == 100000000

dailyLimit == 50000000

\* The statuses the daily-limit query counts.
CountedStatuses == {"PENDING", "VERIFIED", "PROCESSING", "COMPLETED"}

Statuses == CountedStatuses \cup {"REJECTED", "CANCELLED"}

\* CalcFees with the tier limits taken as exclusive.
CalcFeesStrictTiers(amountNum) ==
  IF JsLt(amountNum, Num(1000000)) THEN Num(15000)
  ELSE IF JsLt(amountNum, Num(10000000)) THEN Num(25000)
  ELSE Num(50000)

\* The fee of an amount: 15 up to 1000, 25 up to 10000, 50 above (and for NaN,
\* for which both comparisons are false).
CalcFees(amountNum) ==
  IF JsLe(amountNum, Num(1000000)) THEN Num(15000)
  ELSE IF JsLe(amountNum, Num(10000000)) THEN Num(25000)
  ELSE Num(50000)

-----------------------------------------------------------------------------
(* The Transaction model *)

\* A Date field that was never set.
NoDate == -1

\* A String field that was never set.
Undefined == "undefined"

NoUser == "nobody"

\* Length of a calendar day in clock ticks; a day starts at a multiple of it.
DayLen == 2

\* today.setHours(0, 0, 0, 0)
StartOfDay(t) == t - (t % DayLen)

\* The document Transaction.create builds from the request: schema defaults
\* (status PENDING, no dates), timestamps: true stamps createdAt.
NewTransaction(userId, amountNum, fees, totalAmount, swiftCode, t) ==
  [userId           |-> userId,
   amount           |-> amountNum,
   fees             |-> fees,
   totalAmount      |-> totalAmount,
   swiftCode        |-> swiftCode,
   status           |-> "PENDING",
   verificationCode |-> Undefined,
   createdAt        |-> t,
   verifiedAt       |-> NoDate,
   processedAt      |-> NoDate,
   completedAt      |-> NoDate,
   rejectionReason  |-> Undefined]

\* The schema validators that run before a save: amount casts to a number
\* (NaN does not) and is at least 0.01, the SWIFT code matches.  The upper
\* limit 999999999.99 lies above maxAmount, which the route checked before.
SchemaValid(doc) ==
  /\ ~doc.amount.nan
  /\ doc.amount.v >= 10
  /\ ~doc.fees.nan /\ doc.fees.v >= 0
  /\ SwiftPattern(doc.swiftCode)

\* PreSave generating a verification code at every save.
PreSaveNewCode(doc, code) ==
  [doc EXCEPT !.totalAmount =
                 JsAdd(doc.amount,
                       IF doc.fees.nan \/ doc.fees.v = 0 THEN Num(0) ELSE doc.fees),
              !.verificationCode = code]

\* PreSave without the fees in the total.
PreSaveNoFees(doc, code) ==
  [doc EXCEPT !.totalAmount = doc.amount,
              !.verificationCode = IF @ = Undefined THEN code ELSE @]

\* pre('save'): totalAmount is recomputed, a verification code is generated
\* when there is none (code is what crypto.randomBytes returned).
PreSave(doc, code) ==
  [doc EXCEPT !.totalAmount =
                 JsAdd(doc.amount,
                       IF doc.fees.nan \/ doc.fees.v = 0 THEN Num(0) ELSE doc.fees),
              !.verificationCode = IF @ = Undefined THEN code ELSE @]

\* save() of a loaded document: the paths whose value differs from the loaded
\* one are written, the others keep what the store holds.
SaveModified(stored, loaded, doc) ==
  [f \in DOMAIN stored |->
     IF f \in DOMAIN doc /\ doc[f] # loaded[f] THEN doc[f] ELSE stored[f]]

\* The instance methods: each sets the status (and its own field).  The save
\* that follows is part of the calling action.
DocMarkAsVerified(doc, t) == [doc EXCEPT !.status = "VERIFIED", !.verifiedAt = t]

DocMarkAsProcessing(doc, t) == [doc EXCEPT !.status = "PROCESSING", !.processedAt = t]

DocMarkAsCompleted(doc, t) == [doc EXCEPT !.status = "COMPLETED", !.completedAt = t]

DocMarkAsRejected(doc, reason) ==
  [doc EXCEPT !.status = "REJECTED", !.rejectionReason = reason]

DocMarkAsCancelled(doc) == [doc EXCEPT !.status = "CANCELLED"]

-----------------------------------------------------------------------------
(* The store's queries *)

RECURSIVE SumAmounts(_, _)
SumAmounts(db, ids) ==
  IF ids = {} THEN Num(0)
  ELSE LET i == CHOOSE j \in ids : TRUE
       IN  JsAdd(SumAmounts(db, ids \ {i}), db[i].amount)

\* Transaction.find({userId, status: {$in: [...]}, createdAt: {$gte: today,
\* $lt: tomorrow}}): the ids of the matching documents.
FindToday(db, userId, t) ==
  {i \in DOMAIN db :
     /\ db[i].userId = userId
     /\ db[i].status \in CountedStatuses
     /\ db[i].createdAt >= StartOfDay(t)
     /\ db[i].createdAt < StartOfDay(t) + DayLen}

\* todayTransactions.reduce((sum, tx) => sum + parseFloat(tx.amount), 0)
TodayTotal(db, userId, t) == SumAmounts(db, FindToday(db, userId, t))

\* Mutant of FindOne: findOne({_id: id}), whoever the owner is.
FindOneAnyUser(db, id, userId) ==
  IF id \in DOMAIN db THEN id ELSE 0

\* Transaction.findOne({_id: id, userId}): the id, or 0 when nothing matches.
FindOne(db, id, userId) ==
  IF id \in DOMAIN db /\ db[id].userId = userId THEN id ELSE 0

-----------------------------------------------------------------------------
(* Requests in flight.  A slot holds one request of the server: "idle" before
   the first one, then the handler's position at its pending store call
   ("mp_found": the find of make-payment returned; "cancel_found": the findOne
   of cancel returned and the status check passed) with the handler's local
   variables, and "done" with the response once it answered; a request
   answered 404 keeps the user and the id it asked for. *)

\* A response without a data.transaction object.
NoData == [f \in {} |-> ""]

NoResp == [code |-> 0, error |-> "", id |-> 0, data |-> NoData]

Resp(code, error, id) == [code |-> code, error |-> error, id |-> id, data |-> NoData]

\* data.transaction of the 201 response, read from the document that
\* Transaction.create returned.
CreateResponseData(doc) ==
  [amount           |-> doc.amount,
   swiftCode        |-> doc.swiftCode,
   fees             |-> doc.fees,
   totalAmount      |-> doc.totalAmount,
   status           |-> doc.status,
   verificationCode |-> doc.verificationCode,
   createdAt        |-> doc.createdAt]

\* GetResponseData with the total left to the client.
GetResponseDataNoTotal(doc) ==
  [amount           |-> doc.amount,
   swiftCode        |-> doc.swiftCode,
   fees             |-> doc.fees,
   totalAmount      |-> doc.amount,
   status           |-> doc.status,
   verificationCode |-> doc.verificationCode,
   createdAt        |-> doc.createdAt,
   verifiedAt       |-> doc.verifiedAt,
   processedAt      |-> doc.processedAt,
   completedAt      |-> doc.completedAt,
   rejectionReason  |-> doc.rejectionReason]

\* data.transaction of GET /transactions/:id, read from the document that
\* findOne returned.
GetResponseData(doc) ==
  [amount           |-> doc.amount,
   swiftCode        |-> doc.swiftCode,
   fees             |-> doc.fees,
   totalAmount      |-> doc.totalAmount,
   status           |-> doc.status,
   verificationCode |-> doc.verificationCode,
   createdAt        |-> doc.createdAt,
   verifiedAt       |-> doc.verifiedAt,
   processedAt      |-> doc.processedAt,
   completedAt      |-> doc.completedAt,
   rejectionReason  |-> doc.rejectionReason]

\* The fields of a loaded document that the cancel handler reads or saves.
LoadedFields ==
  {"userId", "amount", "fees", "totalAmount", "verificationCode", "status"}

Loaded(doc) == [f \in LoadedFields |-> doc[f]]

NoDoc == [f \in LoadedFields |->
            IF f \in {"amount", "fees", "totalAmount"} THEN Num(0) ELSE ""]

Idle ==
  [pc |-> "idle", user |-> NoUser, amount |-> <<>>, swift |-> <<>>,
   today |-> NoDate, todayTotal |-> Num(0), id |-> 0, doc |-> NoDoc,
   resp |-> NoResp]

Answered(resp) == [Idle EXCEPT !.pc = "done", !.resp = resp]

SlotFree(s) == slots[s].pc \in {"idle", "done"}

\* No request is between two of its store calls.
Quiet == \A s \in DOMAIN slots : SlotFree(s)

-----------------------------------------------------------------------------
(* POST /make-payment *)

\* if (amountNum < minAmount || amountNum > maxAmount)
AmountOutOfRange(amountNum) ==
  JsLt(amountNum, Num(minAmount)) \/ JsGt(amountNum, Num(maxAmount))

\* DailyLimitExceeded with the check left out.
DailyLimitExceededNever(todayTotal, amountNum) == FALSE

\* DailyLimitExceeded with >= in place of >.
DailyLimitExceededAtLimit(todayTotal, amountNum) ==
  ~JsLt(JsAdd(todayTotal, amountNum), Num(dailyLimit))

\* if (todayTotal + amountNum > dailyLimit)
DailyLimitExceeded(todayTotal, amountNum) ==
  JsGt(JsAdd(todayTotal, amountNum), Num(dailyLimit))

\* The handler up to its first store call: the body's strings arrive trimmed
\* (server.js), the amount is converted and range-checked, and the day's
\* transactions of the user are read.
MakePaymentFind(s, userId, amount, swiftCode, maxTx) ==
  /\ SlotFree(s)
  /\ Len(txs) + Cardinality({r \in DOMAIN slots : slots[r].pc = "mp_found"}) < maxTx
  /\ LET amountNum == ParseFloat(Trim(amount))
     IN  IF AmountOutOfRange(amountNum)
           THEN slots' = [slots EXCEPT ![s] =
                            Answered(Resp(400, "Amount must be between", 0))]
           ELSE slots' = [slots EXCEPT ![s] =
                            [Idle EXCEPT !.pc = "mp_found",
                                         !.user = userId,
                                         !.amount = Trim(amount),
                                         !.swift = Trim(swiftCode),
                                         !.todayTotal = TodayTotal(txs, userId, now)]]
  /\ UNCHANGED <<txs, now, authVars, client>>

\* The rest of the handler, from the find's result to the response: what it
\* answers and the document it persists, if any.
MakePaymentOutcome(userId, amount, swiftCode, todayTotal, t, code, newId) ==
  LET amountNum   == ParseFloat(amount)
      fees        == CalcFees(amountNum)
      totalAmount == JsAdd(amountNum, fees)
      normalizedSwiftCode == ToUpperCase(Trim(swiftCode))
      doc == PreSave(NewTransaction(userId, amountNum, fees, totalAmount,
                                    normalizedSwiftCode, t), code)
      reject(c, e) == [resp |-> Resp(c, e, 0), created |-> FALSE, doc |-> doc]
  IN  IF DailyLimitExceeded(todayTotal, amountNum)
        THEN reject(400, "Daily transaction limit exceeded")
      ELSE IF swiftCode = <<>>
        THEN reject(400, "SWIFT code is required")
      ELSE IF ~SwiftPattern(normalizedSwiftCode)
        THEN reject(400, "Invalid SWIFT code format")
      ELSE IF ~SchemaValid(doc)
        THEN reject(500, "ValidationError")
      ELSE [resp |-> [Resp(201, "", newId) EXCEPT !.data = CreateResponseData(doc)],
            created |-> TRUE, doc |-> doc]

MakePaymentCreate(s, code) ==
  /\ slots[s].pc = "mp_found"
  /\ LET r   == slots[s]
         out == MakePaymentOutcome(r.user, r.amount, r.swift, r.todayTotal,
                                   now, code, Len(txs) + 1)
     IN  /\ txs' = IF out.created THEN Append(txs, out.doc) ELSE txs
         /\ slots' = [slots EXCEPT ![s] = Answered(out.resp)]
  /\ UNCHANGED <<now, authVars, client>>

-----------------------------------------------------------------------------
(* POST /make-payment, with the clock read apart from the query.  The handler
   reads the clock for `today` before it awaits the query ("mp_begun"), and
   the store runs the query later.  MakePaymentFind above is the two steps with
   no time in between.  The route exists with the query of the Mongoose model
   ($gte today, $lt tomorrow) and with the one of the Sequelize model
   (Op.between [today, tomorrow]). *)

\* The handler up to the await of the query.
MakePaymentBegin(s, userId, amount, swiftCode, maxTx) ==
  /\ SlotFree(s)
  /\ Len(txs) + Cardinality({r \in DOMAIN slots :
                               slots[r].pc \in {"mp_begun", "mp_found"}}) < maxTx
  /\ LET amountNum == ParseFloat(Trim(amount))
     IN  IF AmountOutOfRange(amountNum)
           THEN slots' = [slots EXCEPT ![s] =
                            Answered(Resp(400, "Amount must be between", 0))]
           ELSE slots' = [slots EXCEPT ![s] =
                            [Idle EXCEPT !.pc = "mp_begun",
                                         !.user = userId,
                                         !.amount = Trim(amount),
                                         !.swift = Trim(swiftCode),
                                         !.today = StartOfDay(now)]]
  /\ UNCHANGED <<txs, now, authVars, client>>

\* Transaction.find({..., createdAt: {$gte: today, $lt: tomorrow}}) returns.
MakePaymentQuery(s) ==
  /\ slots[s].pc = "mp_begun"
  /\ slots' = [slots EXCEPT ![s].pc = "mp_found",
                            ![s].todayTotal =
                               TodayTotal(txs, slots[s].user, slots[s].today)]
  /\ UNCHANGED <<txs, now, authVars, client>>

\* Transaction.findAll({where: {..., createdAt: {[Op.between]: [today,
\* tomorrow]}}}): BETWEEN includes both ends.
FindAllToday(db, userId, today) ==
  {i \in DOMAIN db :
     /\ db[i].userId = userId
     /\ db[i].status \in CountedStatuses
     /\ db[i].createdAt >= today
     /\ db[i].createdAt <= today + DayLen}

\* findAll returns.
MakePaymentQueryBetween(s) ==
  /\ slots[s].pc = "mp_begun"
  /\ slots' = [slots EXCEPT ![s].pc = "mp_found",
                            ![s].todayTotal =
                               SumAmounts(txs, FindAllToday(txs, slots[s].user,
                                                            slots[s].today))]
  /\ UNCHANGED <<txs, now, authVars, client>>

\* The rest of the handler with findAll: the limit check, the fees, create
\* with the SWIFT code as received, and the response.
MakePaymentCreateBetween(s, code) ==
  /\ slots[s].pc = "mp_found"
  /\ LET r         == slots[s]
         amountNum == ParseFloat(r.amount)
         fees      == CalcFees(amountNum)
         doc       == PreSave(NewTransaction(r.user, amountNum, fees, Num(0),
                                             r.swift, now), code)
     IN  IF DailyLimitExceeded(r.todayTotal, amountNum)
           THEN /\ slots' = [slots EXCEPT ![s] =
                               Answered(Resp(400, "Daily transaction limit exceeded", 0))]
                /\ UNCHANGED txs
         ELSE IF ~SchemaValid(doc)
           THEN /\ slots' = [slots EXCEPT ![s] = Answered(Resp(500, "ValidationError", 0))]
                /\ UNCHANGED txs
         ELSE /\ txs' = Append(txs, doc)
              /\ slots' = [slots EXCEPT ![s] =
                             Answered([Resp(201, "", Len(txs) + 1) EXCEPT
                                         !.data = CreateResponseData(doc)])]
  /\ UNCHANGED <<now, authVars, client>>

-----------------------------------------------------------------------------
(* PUT /transactions/:id/cancel *)

\* CancelRefused letting a VERIFIED transaction through.
CancelRefusedNotVerified(status) == status \notin {"PENDING", "VERIFIED"}

\* if (transaction.status !== 'PENDING') return 400
CancelRefused(status) == status # "PENDING"

\* findOne and the status check on its result.
CancelFind(s, userId, id) ==
  /\ SlotFree(s)
  /\ IF FindOne(txs, id, userId) = 0
       THEN slots' = [slots EXCEPT ![s] =
                        [Answered(Resp(404, "Transaction not found", 0))
                           EXCEPT !.user = userId, !.id = id]]
     ELSE IF CancelRefused(txs[id].status)
       THEN slots' = [slots EXCEPT ![s] =
                        Answered(Resp(400, "Only pending transactions can be cancelled", id))]
     ELSE slots' = [slots EXCEPT ![s] =
                      [Idle EXCEPT !.pc = "cancel_found", !.user = userId,
                                   !.id = id, !.doc = Loaded(txs[id])]]
  /\ UNCHANGED <<txs, now, authVars, client>>

\* markAsCancelled on the loaded document, its save, and the response.
CancelSave(s, code) ==
  /\ slots[s].pc = "cancel_found"
  /\ LET r   == slots[s]
         doc == PreSave(DocMarkAsCancelled(r.doc), code)
     IN  /\ txs' = [txs EXCEPT ![r.id] = SaveModified(@, r.doc, doc)]
         /\ slots' = [slots EXCEPT ![s] = Answered(Resp(200, "", r.id))]
  /\ UNCHANGED <<now, authVars, client>>

-----------------------------------------------------------------------------
(* GET /transactions/:id *)

GetTransaction(s, userId, id) ==
  /\ SlotFree(s)
  /\ IF FindOne(txs, id, userId) = 0
       THEN slots' = [slots EXCEPT ![s] =
                        [Answered(Resp(404, "Transaction not found", 0))
                           EXCEPT !.user = userId, !.id = id]]
       ELSE slots' = [slots EXCEPT ![s] =
                        Answered([Resp(200, "", id) EXCEPT
                                    !.data = GetResponseData(txs[id])])]
  /\ UNCHANGED <<txs, now, authVars, client>>

-----------------------------------------------------------------------------
(* The status methods of the model, each called on the document as the store
   holds it (findById, then the method and its save). *)

MarkAsVerified(id, code) ==
  /\ id \in DOMAIN txs
  /\ txs' = [txs EXCEPT ![id] =
               SaveModified(@, @, PreSave(DocMarkAsVerified(@, now), code))]
  /\ UNCHANGED <<now, slots, authVars, client>>

MarkAsProcessing(id, code) ==
  /\ id \in DOMAIN txs
  /\ txs' = [txs EXCEPT ![id] =
               SaveModified(@, @, PreSave(DocMarkAsProcessing(@, now), code))]
  /\ UNCHANGED <<now, slots, authVars, client>>

MarkAsCompleted(id, code) ==
  /\ id \in DOMAIN txs
  /\ txs' = [txs EXCEPT ![id] =
               SaveModified(@, @, PreSave(DocMarkAsCompleted(@, now), code))]
  /\ UNCHANGED <<now, slots, authVars, client>>

MarkAsRejected(id, reason, code) ==
  /\ id \in DOMAIN txs
  /\ txs' = [txs EXCEPT ![id] =
               SaveModified(@, @, PreSave(DocMarkAsRejected(@, reason), code))]
  /\ UNCHANGED <<now, slots, authVars, client>>

MarkAsCancelled(id, code) ==
  /\ id \in DOMAIN txs
  /\ txs' = [txs EXCEPT ![id] =
               SaveModified(@, @, PreSave(DocMarkAsCancelled(@), code))]
  /\ UNCHANGED <<now, slots, authVars, client>>

\* Time passes.
Tick(maxTime) ==
  /\ now < maxTime
  /\ now' = now + 1
  /\ UNCHANGED <<txs, slots, authVars, client>>

-----------------------------------------------------------------------------
(* The User model.  Date.now() is the clock `now`, counted in ticks; a token's
   iat and exp are counted in seconds of SecLen ticks. *)

\* Clock ticks in a second.
SecLen == 2

\* lockTime (15 minutes) in clock ticks.
LockTicks == 2

\* expiresIn (24h) in seconds.
TokenSecs == 2

maxAttempts == 5

\* argon2.hash of password + salt; argon2.verify accepts exactly the password
\* that was hashed.
Hash(password) == <<"argon2id", password>>

\* userSchema.methods.validatePassword
ValidatePassword(user, password) == user.passwordHash = Hash(password)

\* The document User.create stores: schema defaults, and the pre-save hook
\* hashes the password and stamps passwordChangedAt.
NewUser(idNumber, accountNumber, username, password, t) ==
  [idNumber            |-> idNumber,
   accountNumber       |-> accountNumber,
   username            |-> username,
   passwordHash        |-> Hash(password),
   isActive            |-> TRUE,
   failedLoginAttempts |-> 0,
   lockedUntil         |-> NoDate,
   lastLoginAt         |-> NoDate,
   passwordChangedAt   |-> t]

\* virtual isAccountLocked: !!(this.lockedUntil && this.lockedUntil > Date.now())
IsAccountLocked(user, t) == user.lockedUntil # NoDate /\ user.lockedUntil > t

\* User.findOne({$or: [{idNumber}, {accountNumber}, {username}]}) finds a user.
ExistingUser(db, idNumber, accountNumber, username) ==
  \E i \in DOMAIN db :
    \/ db[i].idNumber = idNumber
    \/ db[i].accountNumber = accountNumber
    \/ db[i].username = username

\* UniqueViolation without the unique indexes.
UniqueViolationNever(db, doc) == FALSE

\* The unique indexes of idNumber, accountNumber and username refuse the
\* insert of doc (duplicate key error).
UniqueViolation(db, doc) ==
  \E i \in DOMAIN db :
    \/ db[i].idNumber = doc.idNumber
    \/ db[i].accountNumber = doc.accountNumber
    \/ db[i].username = doc.username

\* No token.
NoToken == [userId |-> 0, iat |-> 0, exp |-> 0]

\* jwt.sign({userId, iat: Math.floor(Date.now() / 1000), type: 'access'}, ...,
\* {expiresIn})
GenerateToken(userId, t) ==
  [userId |-> userId, iat |-> t \div SecLen, exp |-> (t \div SecLen) + TokenSecs]

-----------------------------------------------------------------------------
(* Auth requests in flight: as the slots above, with the positions
   "reg_checked" (register: findOne found nobody), "login_found"
   (findByCredentials returned the user), "login_reset" (resetFailedAttempts
   saved) and "cp_authed" (change-password: the auth middleware passed). *)

NoUserDoc ==
  [passwordHash |-> <<>>, failedLoginAttempts |-> 0, lockedUntil |-> NoDate,
   lastLoginAt |-> NoDate, passwordChangedAt |-> NoDate]

\* The paths of a loaded user that a handler reads or saves.
LoadedUser(user) == [f \in DOMAIN NoUserDoc |-> user[f]]

NoAuthResp == [code |-> 0, error |-> "", message |-> "", token |-> NoToken]

AuthResp(code, error, message) ==
  [code |-> code, error |-> error, message |-> message, token |-> NoToken]

AuthIdle ==
  [pc |-> "idle", idNumber |-> "", accountNumber |-> "", username |-> "",
   password |-> "", newPassword |-> "", uid |-> 0, doc |-> NoUserDoc,
   audit |-> "", resp |-> NoAuthResp]

AuthAnswered(resp) == [AuthIdle EXCEPT !.pc = "done", !.resp = resp]

AuthFree(s) == auths[s].pc \in {"idle", "done"}

\* No auth request is between two of its store calls.
AuthQuiet == \A s \in DOMAIN auths : AuthFree(s)

\* The auth state of a server nobody has registered with.
NoAccounts ==
  /\ users = <<>>
  /\ auths = [s \in {1} |-> AuthIdle]
  /\ tokens = {}

-----------------------------------------------------------------------------
(* POST /register *)

\* The handler up to the result of findOne.
RegisterFind(s, idNumber, accountNumber, username, password, maxUsers) ==
  /\ AuthFree(s)
  /\ Len(users) + Cardinality({r \in DOMAIN auths : auths[r].pc = "reg_checked"})
       < maxUsers
  /\ IF ExistingUser(users, idNumber, accountNumber, username)
       THEN auths' = [auths EXCEPT ![s] =
                        AuthAnswered(AuthResp(400, "User already exists", ""))]
       ELSE auths' = [auths EXCEPT ![s] =
                        [AuthIdle EXCEPT !.pc = "reg_checked",
                                         !.idNumber = idNumber,
                                         !.accountNumber = accountNumber,
                                         !.username = username,
                                         !.password = password]]
  /\ UNCHANGED <<txs, now, slots, users, tokens, client>>

\* User.create, the tokens and the response.
RegisterCreate(s) ==
  /\ auths[s].pc = "reg_checked"
  /\ LET r   == auths[s]
         doc == NewUser(r.idNumber, r.accountNumber, r.username, r.password, now)
         token == GenerateToken(Len(users) + 1, now)
     IN  IF UniqueViolation(users, doc)
           THEN /\ auths' = [auths EXCEPT ![s] =
                               AuthAnswered(AuthResp(400, "Registration failed", ""))]
                /\ UNCHANGED <<users, tokens>>
           ELSE /\ users' = Append(users, doc)
                /\ tokens' = tokens \cup {token}
                /\ auths' = [auths EXCEPT ![s] =
                               AuthAnswered([AuthResp(201, "", "User registered successfully")
                                               EXCEPT !.token = token])]
  /\ UNCHANGED <<txs, now, slots, client>>

-----------------------------------------------------------------------------
(* POST /login *)

\* User.findOne({username, accountNumber, isActive: true}): the id, or 0.
FindByCredentials(db, username, accountNumber) ==
  IF \E i \in DOMAIN db : /\ db[i].username = username
                          /\ db[i].accountNumber = accountNumber
                          /\ db[i].isActive
    THEN CHOOSE i \in DOMAIN db : /\ db[i].username = username
                                  /\ db[i].accountNumber = accountNumber
                                  /\ db[i].isActive
    ELSE 0

\* DocIncrementFailedAttempts locking only after the limit is passed.
DocIncrementFailedAttemptsLate(doc, t) ==
  [doc EXCEPT !.lockedUntil =
                 IF doc.failedLoginAttempts + 1 > maxAttempts /\ ~IsAccountLocked(doc, t)
                   THEN t + LockTicks ELSE @,
              !.failedLoginAttempts = @ + 1]

\* incrementFailedAttempts, before its save.
DocIncrementFailedAttempts(doc, t) ==
  [doc EXCEPT !.lockedUntil =
                 IF doc.failedLoginAttempts + 1 >= maxAttempts /\ ~IsAccountLocked(doc, t)
                   THEN t + LockTicks ELSE @,
              !.failedLoginAttempts = @ + 1]

\* Mutant of DocResetFailedAttempts: the counter is reset, the lock is kept.
DocResetFailedAttemptsKeepLock(doc) ==
  [doc EXCEPT !.failedLoginAttempts = 0]

\* resetFailedAttempts, before its save.
DocResetFailedAttempts(doc) ==
  [doc EXCEPT !.failedLoginAttempts = 0, !.lockedUntil = NoDate]

\* updateLastLogin, before its save.
DocUpdateLastLogin(doc, t) == [doc EXCEPT !.lastLoginAt = t]

\* findByCredentials: no such active user and a locked account both throw,
\* which the handler answers with 401 and logs with the error's message.
LoginFind(s, username, accountNumber, password) ==
  /\ AuthFree(s)
  /\ LET i == FindByCredentials(users, username, accountNumber)
         refused(reason) ==
           [AuthAnswered(AuthResp(401, "Invalid credentials", ""))
              EXCEPT !.audit = reason]
     IN  IF i = 0
           THEN auths' = [auths EXCEPT ![s] = refused("Invalid credentials")]
         ELSE IF IsAccountLocked(users[i], now)
           THEN auths' = [auths EXCEPT ![s] = refused("Account is temporarily locked")]
         ELSE auths' = [auths EXCEPT ![s] =
                          [AuthIdle EXCEPT !.pc = "login_found",
                                           !.username = username,
                                           !.accountNumber = accountNumber,
                                           !.password = password,
                                           !.uid = i,
                                           !.doc = LoadedUser(users[i])]]
  /\ UNCHANGED <<txs, now, slots, users, tokens, client>>

\* The password is wrong: incrementFailedAttempts with its save, and 401.
LoginFail(s) ==
  /\ auths[s].pc = "login_found"
  /\ ~ValidatePassword(auths[s].doc, auths[s].password)
  /\ LET r   == auths[s]
         doc == DocIncrementFailedAttempts(r.doc, now)
     IN  /\ users' = [users EXCEPT ![r.uid] = SaveModified(@, r.doc, doc)]
         /\ auths' = [auths EXCEPT ![s] =
                        [AuthAnswered(AuthResp(401, "Invalid credentials", ""))
                           EXCEPT !.audit = "Invalid password"]]
  /\ UNCHANGED <<txs, now, slots, tokens, client>>

\* The password is right: resetFailedAttempts with its save.
LoginReset(s) ==
  /\ auths[s].pc = "login_found"
  /\ ValidatePassword(auths[s].doc, auths[s].password)
  /\ LET r   == auths[s]
         doc == DocResetFailedAttempts(r.doc)
     IN  /\ users' = [users EXCEPT ![r.uid] = SaveModified(@, r.doc, doc)]
         /\ auths' = [auths EXCEPT ![s].pc = "login_reset", ![s].doc = doc]
  /\ UNCHANGED <<txs, now, slots, tokens, client>>

\* updateLastLogin with its save, the tokens and the response.
LoginFinish(s) ==
  /\ auths[s].pc = "login_reset"
  /\ LET r     == auths[s]
         doc   == DocUpdateLastLogin(r.doc, now)
         token == GenerateToken(r.uid, now)
     IN  /\ users' = [users EXCEPT ![r.uid] = SaveModified(@, r.doc, doc)]
         /\ tokens' = tokens \cup {token}
         /\ auths' = [auths EXCEPT ![s] =
                        AuthAnswered([AuthResp(200, "", "Login successful")
                                        EXCEPT !.token = token])]
  /\ UNCHANGED <<txs, now, slots, client>>

-----------------------------------------------------------------------------
(* The auth middleware, GET /me and PUT /change-password.  The middleware is
   written for a model with findByPk(id) and isAccountLocked(); the lookup is
   by the user's id and the lock is the one of IsAccountLocked. *)

\* A response that lets the request through to its handler.
AuthPass == AuthResp(0, "", "")

\* auth: what the middleware answers to a request with this token, AuthPass
\* when it calls next().
AuthDecision(token, db, t) ==
  IF token = NoToken
    THEN AuthResp(401, "Access denied. No token provided.", "")
  ELSE IF t \div SecLen >= token.exp
    THEN AuthResp(401, "Token expired", "")
  ELSE IF token.userId \notin DOMAIN db \/ ~db[token.userId].isActive
    THEN AuthResp(401, "User not found or inactive", "")
  ELSE IF IsAccountLocked(db[token.userId], t)
    THEN AuthResp(423, "Account is temporarily locked", "")
  ELSE IF /\ db[token.userId].passwordChangedAt # NoDate
          /\ token.iat * SecLen < db[token.userId].passwordChangedAt
    THEN AuthResp(401, "Password has been changed", "")
  ELSE AuthPass

\* GET /me with this token.
GetMe(s, token) ==
  /\ AuthFree(s)
  /\ LET decision == AuthDecision(token, users, now)
     IN  IF decision # AuthPass
           THEN auths' = [auths EXCEPT ![s] = AuthAnswered(decision)]
           ELSE auths' = [auths EXCEPT ![s] =
                            [AuthAnswered(AuthResp(200, "", "user"))
                               EXCEPT !.uid = token.userId]]
  /\ UNCHANGED <<txs, now, slots, users, tokens, client>>

\* PUT /change-password: the middleware.
ChangePasswordAuth(s, token, currentPassword, newPassword) ==
  /\ AuthFree(s)
  /\ LET decision == AuthDecision(token, users, now)
     IN  IF decision # AuthPass
           THEN auths' = [auths EXCEPT ![s] = AuthAnswered(decision)]
           ELSE auths' = [auths EXCEPT ![s] =
                            [AuthIdle EXCEPT !.pc = "cp_authed",
                                             !.uid = token.userId,
                                             !.doc = LoadedUser(users[token.userId]),
                                             !.password = currentPassword,
                                             !.newPassword = newPassword]]
  /\ UNCHANGED <<txs, now, slots, users, tokens, client>>

\* user.passwordHash = newPassword and the pre-save hook.
DocChangePassword(doc, newPassword, t) ==
  [doc EXCEPT !.passwordHash = Hash(newPassword), !.passwordChangedAt = t]

\* PUT /change-password: the handler.
ChangePasswordSave(s) ==
  /\ auths[s].pc = "cp_authed"
  /\ LET r == auths[s]
     IN  IF ~ValidatePassword(r.doc, r.password)
           THEN /\ auths' = [auths EXCEPT ![s] =
                               AuthAnswered(AuthResp(400, "Current password is incorrect", ""))]
                /\ UNCHANGED users
           ELSE /\ users' = [users EXCEPT ![r.uid] =
                               SaveModified(@, r.doc,
                                            DocChangePassword(r.doc, r.newPassword, now))]
                /\ auths' = [auths EXCEPT ![s] =
                               [AuthAnswered(AuthResp(200, "", "Password changed successfully"))
                                  EXCEPT !.uid = r.uid]]
  /\ UNCHANGED <<txs, now, slots, tokens, client>>

-----------------------------------------------------------------------------
(* POST /forgot-password *)

\* The response: the try branch when findByCredentials returns a user, the
\* catch branch when it throws (no such active user, or the account is locked).
ForgotPasswordResponse(db, username, accountNumber, t) ==
  LET i == FindByCredentials(db, username, accountNumber)
  IN  IF i # 0 /\ ~IsAccountLocked(db[i], t)
        THEN AuthResp(200, "",
               "Password reset instructions have been sent to your registered email")
        ELSE AuthResp(200, "",
               "If an account exists with these credentials, password reset instructions have been sent")

ForgotPassword(s, username, accountNumber) ==
  /\ AuthFree(s)
  /\ auths' = [auths EXCEPT ![s] =
                 AuthAnswered(ForgotPasswordResponse(users, username, accountNumber, now))]
  /\ UNCHANGED <<txs, now, slots, users, tokens, client>>

-----------------------------------------------------------------------------
(* The client's API instance.  `client` is the browser side of one call of the
   API: the requests of the call that wait for their response, innermost
   last (the original request, and the refresh requests its response
   interceptor sent and awaits), the two tokens of localStorage, and the
   outcome of the call.  A frame is a request config with its _retry flag; it
   is "sent" while the server has it and "refreshing" while its interceptor
   awaits authAPI.refreshToken.  The server's answer is any status the route
   can give. *)

\* A request config as axios hands it to the interceptor.
Request(kind) == [kind |-> kind, retry |-> FALSE, pc |-> "sent"]

\* No call is under way and localStorage is empty.
ClientIdle ==
  [stack |-> <<>>, authToken |-> "none", refreshToken |-> FALSE,
   sends |-> 0, refreshCalls |-> 0, result |-> "none", status |-> 0]

NoClient == client = ClientIdle

\* The page calls one of the API's functions: the request interceptor adds
\* the token and the request is sent.
ClientRequest(kind) ==
  /\ client.stack = <<>>
  /\ client' = [client EXCEPT !.stack = <<Request(kind)>>,
                              !.sends = 1, !.refreshCalls = 0,
                              !.result = "none", !.status = 0]
  /\ UNCHANGED <<txs, now, slots, authVars>>

\* The promise of the innermost request resolves.  A request below it awaits
\* it in its interceptor: it stores the new tokens and sends its own request
\* again, instance(originalRequest), with _retry still set.
Resolved(c, status) ==
  LET rest == SubSeq(c.stack, 1, Len(c.stack) - 1)
  IN  IF rest = <<>>
        THEN [c EXCEPT !.stack = <<>>, !.result = "resolved", !.status = status]
        ELSE LET parent == rest[Len(rest)]
             IN  [c EXCEPT !.stack = [rest EXCEPT ![Len(rest)].pc = "sent"],
                           !.authToken = "new",
                           !.refreshToken = TRUE,
                           !.sends = IF parent.kind = "refresh" THEN @ ELSE @ + 1,
                           !.refreshCalls = IF parent.kind = "refresh" THEN @ + 1 ELSE @]

\* The promise of the innermost request rejects.  Every request below it
\* awaits a refresh in its try block: its catch clears localStorage and
\* redirects, and then it rejects with its own error, down to the call.
Rejected(c, status) ==
  IF Len(c.stack) = 1
    THEN [c EXCEPT !.stack = <<>>, !.result = "rejected", !.status = status]
    ELSE [c EXCEPT !.stack = <<>>, !.result = "rejected", !.status = 401,
                   !.authToken = "none", !.refreshToken = FALSE]

\* The response interceptor's first 401 on a request with a refresh token in
\* localStorage: _retry is set and authAPI.refreshToken sends POST
\* /auth/refresh through the same instance.
Refreshing(c) ==
  LET n == Len(c.stack)
  IN  [c EXCEPT !.stack = Append([c.stack EXCEPT ![n].retry = TRUE,
                                                 ![n].pc = "refreshing"],
                                 Request("refresh")),
                !.refreshCalls = @ + 1]

\* The server answers the innermost request with this status and the
\* response interceptor runs up to its next await.
ClientResponse(status, maxDepth) ==
  /\ client.stack # <<>>
  /\ LET n   == Len(client.stack)
         top == client.stack[n]
     IN  /\ top.pc = "sent"
         /\ IF status = 200
              THEN client' = Resolved(client, status)
            ELSE IF status = 401 /\ ~top.retry /\ client.refreshToken
              THEN /\ n < maxDepth
                   /\ client' = Refreshing(client)
            ELSE client' = Rejected(client, status)
  /\ UNCHANGED <<txs, now, slots, authVars>>

\* Login stored its tokens in localStorage, or they are removed.
ClientStorage(authToken, refreshToken) ==
  /\ client.stack = <<>>
  /\ client' = [client EXCEPT !.authToken = authToken,
                              !.refreshToken = refreshToken]
  /\ UNCHANGED <<txs, now, slots, authVars>>

-----------------------------------------------------------------------------
(* Bounds and inputs *)

\* Clock ticks of Spec.
MaxTime == 1

\* Transactions the store holds at most in SpecPay.
MaxTx == 2

\* Transactions the store holds at most in SpecSeq.
SeqMaxTx == 3

\* Transactions the store holds at most in SpecInput.
MaxInputTx == 2

\* The requests the server has in hand at a time.
SlotIds == {1, 2}

\* Spec follows one transaction through its life.
LifeIds == {1}

Users == {"u1", "u2"}

\* Values crypto.randomBytes(3) may return, as upper-case hex.
Codes == {"A1B2C3"}

\* What crypto.randomBytes returns in Spec.
LifeCodes == Codes \cup {"D4E5F6"}

Reasons == {"fraud"}

Amt20000 == <<"2", "0", "0", "0", "0", ".", "0", "0">>

Amt30000 == <<"3", "0", "0", "0", "0", ".", "0", "0">>

SwiftLower == <<"c", "h", "a", "s", "u", "s", "3", "3">>

SwiftUpper == <<"C", "H", "A", "S", "U", "S", "3", "3">>

LimitAmounts == {Amt20000, Amt30000}

Amt0_99 == <<"0", ".", "9", "9">>

Amt1 == <<"1", ".", "0", "0">>

Amt999_99 == <<"9", "9", "9", ".", "9", "9">>

Amt1000 == <<"1", "0", "0", "0", ".", "0", "0">>

Amt1000_01 == <<"1", "0", "0", "0", ".", "0", "1">>

Amt9999_99 == <<"9", "9", "9", "9", ".", "9", "9">>

Amt10000 == <<"1", "0", "0", "0", "0", ".", "0", "0">>

Amt10000_01 == <<"1", "0", "0", "0", "0", ".", "0", "1">>

Amt100000 == <<"1", "0", "0", "0", "0", "0", ".", "0", "0">>

Amt100000_01 == <<"1", "0", "0", "0", "0", "0", ".", "0", "1">>

Amt100001 == <<"1", "0", "0", "0", "0", "1", ".", "0", "0">>

Amt500_005 == <<"5", "0", "0", ".", "0", "0", "5">>

Amt12a == <<"1", "2", "a">>

AmtWord == <<"a", "b", "c">>

AmtNeg == <<"-", "5", ".", "0", "0">>

AmtEmpty == <<>>

AmtPlus == <<"+", "2", "0", ".", "5">>

AmtDot5 == <<".", "5">>

AmtTrailDot == <<"7", ".">>

SwiftShort == <<"C", "H", "A", "S", "3", "3">>

SwiftDigit == <<"C", "H", "A", "5", "U", "S", "3", "3">>

SwiftPadded == <<" ", "c", "h", "a", "s", "u", "s", "3", "3", "x", "x", "x", " ">>

SwiftEmpty == <<>>

\* Amount fields: around minAmount, the fee tiers and maxAmount, and strings
\* the amount pattern does not match.
AllAmounts ==
  {Amt0_99, Amt1, Amt999_99, Amt1000, Amt1000_01, Amt9999_99, Amt10000, Amt10000_01, Amt100000, Amt100000_01, Amt100001, Amt500_005, Amt12a, AmtWord, AmtNeg, AmtEmpty, AmtPlus, AmtDot5, AmtTrailDot}

AllSwifts == {SwiftLower, SwiftUpper, SwiftShort, SwiftDigit, SwiftPadded, SwiftEmpty}

-----------------------------------------------------------------------------
(* Spec: one transaction through its life.  Requests of several users
   overlap at their store calls, the status methods are called in any order,
   time passes. *)

Init ==
  /\ txs = <<>>
  /\ now = 0
  /\ slots = [s \in SlotIds |-> Idle]
  /\ NoAccounts
  /\ NoClient

Next ==
  \/ \E s \in SlotIds, u \in Users, a \in LimitAmounts :
       MakePaymentFind(s, u, a, SwiftLower, Cardinality(LifeIds))
  \/ \E s \in SlotIds, c \in LifeCodes : MakePaymentCreate(s, c)
  \/ \E s \in SlotIds, u \in Users, id \in LifeIds : CancelFind(s, u, id)
  \/ \E s \in SlotIds, c \in LifeCodes : CancelSave(s, c)
  \/ \E id \in LifeIds, c \in LifeCodes : MarkAsVerified(id, c)
  \/ \E id \in LifeIds, c \in LifeCodes : MarkAsProcessing(id, c)
  \/ \E id \in LifeIds, c \in LifeCodes : MarkAsCompleted(id, c)
  \/ \E id \in LifeIds, r \in Reasons, c \in LifeCodes : MarkAsRejected(id, r, c)
  \/ \E id \in LifeIds, c \in LifeCodes : MarkAsCancelled(id, c)
  \/ Tick(MaxTime)

Spec == Init /\ [][Next]_vars

-----------------------------------------------------------------------------
(* SpecPay and SpecSeq: payments and cancellations of a day.  The store may
   already hold a transaction of the day before or of this day, in any status
   the status methods lead to. *)

\* A stored transaction created at t that went the way to status.
SeedTx(userId, amount, status, t) ==
  LET amountNum == ParseFloat(amount)
      fees      == CalcFees(amountNum)
      created   == PreSave(NewTransaction(userId, amountNum, fees,
                                          JsAdd(amountNum, fees),
                                          ToUpperCase(SwiftLower), t),
                           CHOOSE c \in Codes : TRUE)
      verified   == DocMarkAsVerified(created, t)
      processing == DocMarkAsProcessing(verified, t)
  IN  CASE status = "PENDING"    -> created
        [] status = "VERIFIED"   -> verified
        [] status = "PROCESSING" -> processing
        [] status = "COMPLETED"  -> DocMarkAsCompleted(processing, t)
        [] status = "REJECTED"   -> DocMarkAsRejected(created, CHOOSE r \in Reasons : TRUE)
        [] status = "CANCELLED"  -> DocMarkAsCancelled(created)

SeedStores ==
  {<<>>} \cup
  {<<SeedTx(u, a, st, t)>> :
     u \in Users, a \in LimitAmounts, st \in Statuses, t \in {DayLen - 1, DayLen}}

InitPay ==
  /\ txs \in SeedStores
  /\ now = DayLen
  /\ slots = [s \in SlotIds |-> Idle]
  /\ NoAccounts
  /\ NoClient

NextPay ==
  \/ \E s \in SlotIds, u \in Users, a \in LimitAmounts :
       MakePaymentFind(s, u, a, SwiftLower, MaxTx)
  \/ \E s \in SlotIds, c \in Codes : MakePaymentCreate(s, c)
  \/ \E s \in SlotIds, u \in Users, id \in 1..MaxTx : CancelFind(s, u, id)
  \/ \E s \in SlotIds, c \in Codes : CancelSave(s, c)
  \/ Tick(DayLen + 1)

SpecPay == InitPay /\ [][NextPay]_vars

\* Requests are processed one after another: a request starts, and time
\* passes, only when no request is between two of its store calls.
NextSeq ==
  \/ /\ Quiet
     /\ \E s \in DOMAIN slots, u \in Users, a \in LimitAmounts :
          MakePaymentFind(s, u, a, SwiftLower, SeqMaxTx)
  \/ \E s \in DOMAIN slots, c \in Codes : MakePaymentCreate(s, c)
  \/ /\ Quiet
     /\ \E s \in DOMAIN slots, u \in Users, id \in 1..SeqMaxTx : CancelFind(s, u, id)
  \/ \E s \in DOMAIN slots, c \in Codes : CancelSave(s, c)
  \/ Quiet /\ Tick(DayLen + 1)

InitSeq ==
  /\ txs \in SeedStores
  /\ now = DayLen
  /\ slots = [s \in {1} |-> Idle]
  /\ NoAccounts
  /\ NoClient

SpecSeq == InitSeq /\ [][NextSeq]_vars

-----------------------------------------------------------------------------
(* SpecInput: payment requests with any of the amount and SWIFT fields above,
   one after another. *)

InitInput ==
  /\ txs = <<>>
  /\ now = 0
  /\ slots = [s \in {1} |-> Idle]
  /\ NoAccounts
  /\ NoClient

NextInput ==
  \/ /\ Quiet
     /\ \E s \in DOMAIN slots, a \in AllAmounts, w \in AllSwifts :
          MakePaymentFind(s, "u1", a, w, MaxInputTx)
  \/ \E s \in DOMAIN slots, c \in Codes : MakePaymentCreate(s, c)

SpecInput == InitInput /\ [][NextInput]_vars

-----------------------------------------------------------------------------
(* SpecFetch: payments are created, fetched by id and cancelled, one request
   after another, by either user, within one clock tick. *)

\* Transactions the store holds at most in SpecFetch.
FetchMaxTx == 2

FetchAmounts == {Amt1000_01, Amt30000}

FetchSwifts == {SwiftPadded}

InitFetch ==
  /\ txs = <<>>
  /\ now = 0
  /\ slots = [s \in SlotIds |-> Idle]
  /\ NoAccounts
  /\ NoClient

NextFetch ==
  \/ /\ Quiet
     /\ \E s \in SlotIds, u \in Users, a \in FetchAmounts, w \in FetchSwifts :
          MakePaymentFind(s, u, a, w, FetchMaxTx)
  \/ \E s \in SlotIds, c \in Codes : MakePaymentCreate(s, c)
  \/ /\ Quiet
     /\ \E s \in SlotIds, u \in Users, id \in 1..FetchMaxTx : GetTransaction(s, u, id)
  \/ /\ Quiet
     /\ \E s \in SlotIds, u \in Users, id \in 1..FetchMaxTx : CancelFind(s, u, id)
  \/ \E s \in SlotIds, c \in Codes : CancelSave(s, c)

SpecFetch == InitFetch /\ [][NextFetch]_vars

-----------------------------------------------------------------------------
(* SpecReg: registration requests that overlap at their store calls. *)

\* Users the store holds at most in SpecReg.
MaxUsers == 2

IdNumbers == {"8001015009087", "9002026009088"}

AccountNumbers == {"1234567890", "2345678901"}

Usernames == {"alice", "bob"}

Passwords == {"Passw0rd!", "Secr3t#1"}

NoTransactions ==
  /\ txs = <<>>
  /\ slots = [s \in {1} |-> Idle]

InitReg ==
  /\ NoTransactions
  /\ NoClient
  /\ now = 0
  /\ users = <<>>
  /\ auths = [s \in SlotIds |-> AuthIdle]
  /\ tokens = {}

NextReg ==
  \/ \E s \in SlotIds, i \in IdNumbers, a \in AccountNumbers, u \in Usernames :
       RegisterFind(s, i, a, u, "Passw0rd!", MaxUsers)
  \/ \E s \in SlotIds : RegisterCreate(s)

SpecReg == InitReg /\ [][NextReg]_vars

-----------------------------------------------------------------------------
(* SpecLogin: login and forgot-password requests that name a registered
   account or no account, one after another, with the right and with a wrong
   password, while time passes. *)

\* Clock ticks of SpecLogin.
LoginMaxTime == 3

\* The store after alice registered at time 0.
Registered ==
  <<NewUser("8001015009087", "1234567890", "alice", "Passw0rd!", 0)>>

InitLogin ==
  /\ NoTransactions
  /\ NoClient
  /\ now = 0
  /\ users = Registered
  /\ auths = [s \in {1} |-> AuthIdle]
  /\ tokens = {GenerateToken(1, 0)}

NextLogin ==
  \/ /\ AuthQuiet
     /\ \E s \in DOMAIN auths, u \in Usernames, p \in Passwords :
          LoginFind(s, u, "1234567890", p)
  \/ \E s \in DOMAIN auths : LoginFail(s)
  \/ \E s \in DOMAIN auths : LoginReset(s)
  \/ \E s \in DOMAIN auths : LoginFinish(s)
  \/ /\ AuthQuiet
     /\ \E s \in DOMAIN auths, u \in Usernames : ForgotPassword(s, u, "1234567890")
  \/ Tick(LoginMaxTime)

SpecLogin == InitLogin /\ [][NextLogin]_vars

-----------------------------------------------------------------------------
(* SpecToken: a registered account whose owner logs in, changes the password
   and calls GET /me with any token issued so far, one request after another;
   four wrong passwords may already have been counted. *)

\* Clock ticks of SpecToken.
TokenMaxTime == 3

InitToken ==
  /\ NoTransactions
  /\ NoClient
  /\ now = 0
  /\ users \in {Registered,
                <<[Registered[1] EXCEPT !.failedLoginAttempts = maxAttempts - 1]>>}
  /\ auths = [s \in {1} |-> AuthIdle]
  /\ tokens = {GenerateToken(1, 0)}

NextToken ==
  \/ /\ AuthQuiet
     /\ \E s \in DOMAIN auths, p \in Passwords : LoginFind(s, "alice", "1234567890", p)
  \/ \E s \in DOMAIN auths : LoginFail(s)
  \/ \E s \in DOMAIN auths : LoginReset(s)
  \/ \E s \in DOMAIN auths : LoginFinish(s)
  \/ /\ AuthQuiet
     /\ \E s \in DOMAIN auths, k \in tokens \cup {NoToken} : GetMe(s, k)
  \/ /\ AuthQuiet
     /\ \E s \in DOMAIN auths, k \in tokens \cup {NoToken}, c, n \in Passwords :
          ChangePasswordAuth(s, k, c, n)
  \/ \E s \in DOMAIN auths : ChangePasswordSave(s)
  \/ Tick(TokenMaxTime)

SpecToken == InitToken /\ [][NextToken]_vars

-----------------------------------------------------------------------------
(* SpecDay and SpecDayBetween: payment requests around midnight that overlap
   at their store calls, with the query of the one and of the other route. *)

\* Transactions the store holds at most in SpecDay and SpecDayBetween.
DayMaxTx == 2

InitDay ==
  /\ txs = <<>>
  /\ now = DayLen - 1
  /\ slots = [s \in SlotIds |-> Idle]
  /\ NoAccounts
  /\ NoClient

NextDay ==
  \/ \E s \in SlotIds, u \in Users, a \in LimitAmounts :
       MakePaymentBegin(s, u, a, SwiftUpper, DayMaxTx)
  \/ \E s \in SlotIds : MakePaymentQuery(s)
  \/ \E s \in SlotIds, c \in Codes : MakePaymentCreate(s, c)
  \/ Tick(2 * DayLen)

SpecDay == InitDay /\ [][NextDay]_vars

NextDayBetween ==
  \/ \E s \in SlotIds, u \in Users, a \in LimitAmounts :
       MakePaymentBegin(s, u, a, SwiftUpper, DayMaxTx)
  \/ \E s \in SlotIds : MakePaymentQueryBetween(s)
  \/ \E s \in SlotIds, c \in Codes : MakePaymentCreateBetween(s, c)
  \/ Tick(2 * DayLen)

SpecDayBetween == InitDay /\ [][NextDayBetween]_vars

-----------------------------------------------------------------------------
(* SpecLimit: payments, cancellations and the status methods of a day, one
   operation after another. *)

\* Transactions the store holds at most in SpecLimit.
LimitMaxTx == 2

InitLimit ==
  /\ txs = <<>>
  /\ now = 0
  /\ slots = [s \in {1} |-> Idle]
  /\ NoAccounts
  /\ NoClient

NextLimit ==
  \/ /\ Quiet
     /\ \E s \in DOMAIN slots, u \in {"u1"}, a \in LimitAmounts :
          MakePaymentFind(s, u, a, SwiftLower, LimitMaxTx)
  \/ \E s \in DOMAIN slots, c \in Codes : MakePaymentCreate(s, c)
  \/ /\ Quiet
     /\ \E s \in DOMAIN slots, u \in {"u1"}, id \in 1..LimitMaxTx : CancelFind(s, u, id)
  \/ \E s \in DOMAIN slots, c \in Codes : CancelSave(s, c)
  \/ Quiet /\ \E id \in 1..LimitMaxTx, c \in Codes : MarkAsVerified(id, c)
  \/ Quiet /\ \E id \in 1..LimitMaxTx, c \in Codes : MarkAsProcessing(id, c)
  \/ Quiet /\ \E id \in 1..LimitMaxTx, c \in Codes : MarkAsCompleted(id, c)
  \/ Quiet /\ \E id \in 1..LimitMaxTx, r \in Reasons, c \in Codes : MarkAsRejected(id, r, c)
  \/ Quiet /\ \E id \in 1..LimitMaxTx, c \in Codes : MarkAsCancelled(id, c)

SpecLimit == InitLimit /\ [][NextLimit]_vars

-----------------------------------------------------------------------------
(* SpecRace: the owner's cancel requests overlap with the verification of the
   transaction.  markAsVerified is called on PENDING transactions only, so
   every status change in this specification starts from PENDING as read. *)

\* An employee verifies a transaction the store holds as PENDING.
VerifyPending(id, code) ==
  /\ id \in DOMAIN txs
  /\ txs[id].status = "PENDING"
  /\ MarkAsVerified(id, code)

NextRace ==
  \/ \E s \in SlotIds, u \in Users, a \in LimitAmounts :
       MakePaymentFind(s, u, a, SwiftLower, Cardinality(LifeIds))
  \/ \E s \in SlotIds, c \in Codes : MakePaymentCreate(s, c)
  \/ \E s \in SlotIds, u \in Users, id \in LifeIds : CancelFind(s, u, id)
  \/ \E s \in SlotIds, c \in Codes : CancelSave(s, c)
  \/ \E id \in LifeIds, c \in Codes : VerifyPending(id, c)
  \/ Tick(MaxTime)

SpecRace == Init /\ [][NextRace]_vars

-----------------------------------------------------------------------------
(* SpecLoginRace: login requests for one account that overlap at their store
   calls. *)

InitLoginRace ==
  /\ NoTransactions
  /\ NoClient
  /\ now = 0
  /\ users = Registered
  /\ auths = [s \in SlotIds |-> AuthIdle]
  /\ tokens = {}

NextLoginRace ==
  \/ \E s \in DOMAIN auths, p \in Passwords : LoginFind(s, "alice", "1234567890", p)
  \/ \E s \in DOMAIN auths : LoginFail(s)
  \/ \E s \in DOMAIN auths : LoginReset(s)
  \/ \E s \in DOMAIN auths : LoginFinish(s)
  \/ Tick(MaxTime)

SpecLoginRace == InitLoginRace /\ [][NextLoginRace]_vars

-----------------------------------------------------------------------------
(* SpecRegToken: users register at any time and call GET /me with the tokens
   their registrations returned, one request after another.  No password is
   changed and nobody logs in: every token was issued right after its user's
   only password change, the first save. *)

InitRegToken ==
  /\ NoTransactions
  /\ NoClient
  /\ now = 0
  /\ users = <<>>
  /\ auths = [s \in SlotIds |-> AuthIdle]
  /\ tokens = {}

NextRegToken ==
  \/ /\ AuthQuiet
     /\ \E s \in DOMAIN auths, i \in IdNumbers, a \in AccountNumbers,
           u \in Usernames, p \in Passwords :
          RegisterFind(s, i, a, u, p, MaxUsers)
  \/ \E s \in DOMAIN auths : RegisterCreate(s)
  \/ /\ AuthQuiet
     /\ \E s \in DOMAIN auths, k \in tokens : GetMe(s, k)
  \/ AuthQuiet /\ Tick(TokenMaxTime)

SpecRegToken == InitRegToken /\ [][NextRegToken]_vars

-----------------------------------------------------------------------------
(* SpecClient: calls of the API from a page, each answered by the server with
   any status of its route. *)

\* Requests of one call that wait for their response at most.
MaxDepth == 4

\* The API functions called.
Calls == {"getCurrentUser", "makePayment", "getTransaction"}

\* The statuses POST /auth/refresh answers with: the new tokens, an invalid
\* refresh token, and the rate limiter of /api/auth.
RefreshStatuses == {200, 401, 429}

\* The statuses the other routes answer with.
CallStatuses == {200, 400, 401, 404}

InitClient ==
  /\ NoTransactions
  /\ NoAccounts
  /\ now = 0
  /\ NoClient

NextClient ==
  \/ \E k \in Calls : ClientRequest(k)
  \/ \E st \in CallStatuses :
       /\ client.stack # <<>>
       /\ client.stack[Len(client.stack)].kind # "refresh"
       /\ ClientResponse(st, MaxDepth)
  \/ \E st \in RefreshStatuses :
       /\ client.stack # <<>>
       /\ client.stack[Len(client.stack)].kind = "refresh"
       /\ ClientResponse(st, MaxDepth)
  \/ \E a \in {"none", "old"}, r \in BOOLEAN : ClientStorage(a, r)

SpecClient == InitClient /\ [][NextClient]_vars

-----------------------------------------------------------------------------
(* Claims *)

AllowedEdges ==
  {<<"PENDING", "VERIFIED">>, <<"VERIFIED", "PROCESSING">>,
   <<"PROCESSING", "COMPLETED">>, <<"PENDING", "CANCELLED">>,
   <<"PENDING", "REJECTED">>, <<"VERIFIED", "REJECTED">>}

TerminalStatuses == {"COMPLETED", "REJECTED", "CANCELLED"}

\* C1: every change of a transaction's status follows one of the six allowed
\* edges; no transition operation skips a required predecessor.
C1_AllowedEdgesOnly ==
  [][\A i \in DOMAIN txs :
       txs'[i].status # txs[i].status
         => <<txs[i].status, txs'[i].status>> \in AllowedEdges]_vars

\* C2: once a transaction is COMPLETED, REJECTED or CANCELLED, no operation
\* changes its status.
C2_TerminalIsFinal ==
  [][\A i \in DOMAIN txs :
       txs[i].status \in TerminalStatuses => txs'[i].status = txs[i].status]_vars

\* C3: every persisted transaction has totalAmount = amount + fees, after
\* creation and after every later save.
C3_TotalIsAmountPlusFees ==
  \A i \in DOMAIN txs :
    /\ ~txs[i].totalAmount.nan
    /\ txs[i].totalAmount.v = txs[i].amount.v + txs[i].fees.v

\* A transaction that went through creation and three more saves.
C3_Witness ==
  \E i \in DOMAIN txs :
    /\ txs[i].status = "COMPLETED"
    /\ txs[i].verifiedAt # NoDate
    /\ txs[i].processedAt # NoDate
    /\ txs[i].completedAt # NoDate
    /\ txs[i].fees.v > 0

\* C4: the fee stored at creation is 15.00 up to 1000.00, 25.00 above that up
\* to 10000.00 and 50.00 above, for every stored amount, which lies in
\* [minAmount, maxAmount].
C4_FeeMatchesTiers ==
  \A i \in DOMAIN txs :
    LET a == txs[i].amount.v
        f == txs[i].fees.v
    IN  /\ a >= 1000 /\ a <= 100000000
        /\ (a <= 1000000) => f = 15000
        /\ (a > 1000000 /\ a <= 10000000) => f = 25000
        /\ (a > 10000000) => f = 50000
        /\ (a = 1000000) => f = 15000
        /\ (a = 1000010) => f = 25000
        /\ (a = 10000000) => f = 25000
        /\ (a = 10000010) => f = 50000

\* Transactions of 1000.00 and of 10000.01 are stored with their fees.
C4_Witness ==
  /\ \E i \in DOMAIN txs : txs[i].amount.v = 1000000 /\ txs[i].fees.v = 15000
  /\ \E i \in DOMAIN txs : txs[i].amount.v = 10000010 /\ txs[i].fees.v = 50000

\* The user's transactions created on the day of t in a status that counts.
CountedToday(userId, t) ==
  {i \in DOMAIN txs :
     /\ txs[i].userId = userId
     /\ txs[i].status \in {"PENDING", "VERIFIED", "PROCESSING", "COMPLETED"}
     /\ txs[i].createdAt \div DayLen = t \div DayLen}

RECURSIVE SumOf(_)
SumOf(ids) ==
  IF ids = {} THEN 0
  ELSE LET i == CHOOSE j \in ids : TRUE
       IN  txs[i].amount.v + SumOf(ids \ {i})

\* Slot s answers its make-payment request in this step.
MakePaymentAnswers(s) == slots[s].pc = "mp_found" /\ slots'[s].pc = "done"

\* C5: with requests processed one after another, a make-payment of amount A
\* by a user whose counted transactions of today sum to S is rejected with
\* the daily-limit error when S + A > 50000 and creates a transaction when
\* S + A <= 50000; REJECTED and CANCELLED transactions are not part of S.
C5_DailyLimitDecides ==
  [][\A s \in DOMAIN slots :
       MakePaymentAnswers(s) =>
         LET S == SumOf(CountedToday(slots[s].user, now))
             A == ParseFloat(slots[s].amount).v
         IN  /\ (S + A > 50000000) =>
                  /\ slots'[s].resp.code = 400
                  /\ slots'[s].resp.error = "Daily transaction limit exceeded"
                  /\ txs' = txs
             /\ (S + A <= 50000000) =>
                  /\ slots'[s].resp.code = 201
                  /\ Len(txs') = Len(txs) + 1
                  /\ txs'[Len(txs')].userId = slots[s].user
                  /\ txs'[Len(txs')].amount.v = A
                  /\ txs'[Len(txs')].status = "PENDING"
                  /\ SubSeq(txs', 1, Len(txs)) = txs]_vars

\* A cancelled 30000.00 of today did not count against a second 30000.00, and
\* a third request was then refused with the daily-limit error.
C5_Witness ==
  \E s \in DOMAIN slots, i, j \in DOMAIN txs :
    /\ slots[s].pc = "done"
    /\ slots[s].resp.error = "Daily transaction limit exceeded"
    /\ txs[i].userId = txs[j].userId
    /\ txs[i].status \in {"CANCELLED", "REJECTED"}
    /\ txs[j].status = "PENDING"
    /\ txs[i].createdAt \div DayLen = now \div DayLen
    /\ txs[j].createdAt \div DayLen = now \div DayLen
    /\ txs[i].amount.v = 30000000
    /\ txs[j].amount.v = 30000000

\* C6: with overlapping requests a payment is created although the user's
\* counted sum of the day plus its amount exceeds the limit, and then only
\* because its handler read a smaller sum than the store holds at creation.
C6_OvershootOnlyByStaleRead ==
  [][\A s \in DOMAIN slots :
       (MakePaymentAnswers(s) /\ Len(txs') > Len(txs)) =>
         LET S == SumOf(CountedToday(slots[s].user, now))
             A == ParseFloat(slots[s].amount).v
         IN  (S + A > 50000000) => slots[s].todayTotal.v < S]_vars

\* Two overlapping requests of one user were both answered 201 and the two
\* pending transactions of the day they created exceed the daily limit.
C6_Witness ==
  \E s1, s2 \in DOMAIN slots :
    /\ s1 # s2
    /\ slots[s1].pc = "done" /\ slots[s1].resp.code = 201
    /\ slots[s2].pc = "done" /\ slots[s2].resp.code = 201
    /\ LET i == slots[s1].resp.id
           j == slots[s2].resp.id
       IN  /\ i # j
           /\ txs[i].userId = txs[j].userId
           /\ txs[i].status = "PENDING" /\ txs[j].status = "PENDING"
           /\ txs[i].createdAt \div DayLen = txs[j].createdAt \div DayLen
           /\ txs[i].amount.v + txs[j].amount.v > 50000000

\* C7: of two overlapping cancel requests on one transaction exactly one
\* succeeds; the other fails.
C7_OneCancelSucceeds ==
  \A s1, s2 \in DOMAIN slots :
    (/\ s1 # s2
     /\ slots[s1].pc = "done" /\ slots[s1].resp.code = 200
     /\ slots[s2].pc = "done" /\ slots[s2].resp.code = 200)
      => slots[s1].resp.id # slots[s2].resp.id

\* C8: a cancel request of the owner succeeds and sets CANCELLED only when
\* the transaction is PENDING; in every other status it is refused and the
\* transaction stays as it is.
C8_CancelOnlyFromPending ==
  [][/\ \A i \in DOMAIN txs :
          (txs'[i].status = "CANCELLED" /\ txs[i].status # "CANCELLED")
            => txs[i].status = "PENDING"
     /\ \A s \in DOMAIN slots :
          /\ (slots'[s].pc = "cancel_found" /\ slots[s].pc # "cancel_found")
               => /\ txs[slots'[s].id].status = "PENDING"
                  /\ txs[slots'[s].id].userId = slots'[s].user
          /\ (slots[s].pc = "cancel_found" /\ slots'[s].pc # "cancel_found")
               => /\ slots'[s].pc = "done"
                  /\ slots'[s].resp.code = 200
                  /\ txs[slots[s].id].status = "PENDING"
                  /\ txs'[slots[s].id].status = "CANCELLED"
          /\ (/\ slots'[s] # slots[s]
              /\ slots'[s].pc = "done"
              /\ slots'[s].resp.error = "Only pending transactions can be cancelled")
               => /\ txs' = txs
                  /\ txs[slots'[s].resp.id].status # "PENDING"
          /\ (/\ slots'[s] # slots[s]
              /\ slots[s].pc # "cancel_found"
              /\ slots'[s].pc = "done"
              /\ slots'[s].resp.id \in DOMAIN txs
              /\ txs[slots'[s].resp.id].status # "PENDING")
               => slots'[s].resp.code # 200]_vars

\* A cancel of a VERIFIED transaction was refused and left it VERIFIED, after
\* a cancel of a PENDING one had set it CANCELLED.
C8_Witness ==
  \E s \in DOMAIN slots, j \in DOMAIN txs :
    /\ slots[s].pc = "done"
    /\ slots[s].resp.error = "Only pending transactions can be cancelled"
    /\ txs[slots[s].resp.id].status = "VERIFIED"
    /\ j > 1
    /\ txs[j].status = "CANCELLED"

\* C9: verify() takes a PENDING transaction to VERIFIED and stamps
\* verifiedAt; on a transaction in any other status (a second verify) it
\* fails and leaves status and verifiedAt as they are.
C9_VerifyOnlyFromPending ==
  [][\A i \in DOMAIN txs :
       txs[i].status # "PENDING" =>
         /\ txs'[i].verifiedAt = txs[i].verifiedAt
         /\ (txs'[i].status = "VERIFIED" => txs[i].status = "VERIFIED")]_vars

\* C10: a make-payment whose amount does not match the two-decimal pattern
\* or lies outside [1.00, 100000.00] persists no transaction.
C10_InvalidAmountNotPersisted ==
  [][\A s \in DOMAIN slots :
       (MakePaymentAnswers(s) /\ Len(txs') > Len(txs)) =>
         /\ AmountPattern(slots[s].amount)
         /\ ParseFloat(slots[s].amount).v >= 1000
         /\ ParseFloat(slots[s].amount).v <= 100000000]_vars

\* The fields an error response names.
ReportsAmount(resp) == resp.error = "Amount must be between"

ReportsSwift(resp) ==
  resp.error \in {"SWIFT code is required", "Invalid SWIFT code format"}

\* C11: a make-payment whose amount and SWIFT code both break their rules is
\* answered with an error that reports both fields, and persists nothing.
C11_AllViolationsReported ==
  [][\A s \in DOMAIN slots, a \in AllAmounts, w \in AllSwifts :
       (/\ MakePaymentFind(s, "u1", a, w, MaxInputTx)
        /\ AmountOutOfRange(ParseFloat(Trim(a)))
        /\ ~SwiftPattern(ToUpperCase(Trim(w))))
         => /\ slots'[s].pc = "done"
            /\ slots'[s].resp.code = 400
            /\ ReportsAmount(slots'[s].resp)
            /\ ReportsSwift(slots'[s].resp)
            /\ txs' = txs]_vars

\* C12: a transaction has a rejectionReason only while its status is
\* REJECTED, and verifiedAt, processedAt and completedAt change only in the
\* step that sets the status VERIFIED, PROCESSING and COMPLETED.
C12_FieldsFollowStatus ==
  [][\A i \in DOMAIN txs :
       /\ txs'[i].rejectionReason # Undefined => txs'[i].status = "REJECTED"
       /\ txs'[i].verifiedAt # txs[i].verifiedAt => txs'[i].status = "VERIFIED"
       /\ txs'[i].processedAt # txs[i].processedAt => txs'[i].status = "PROCESSING"
       /\ txs'[i].completedAt # txs[i].completedAt => txs'[i].status = "COMPLETED"]_vars

\* C13: no step changes the userId, amount, fees, totalAmount or
\* verificationCode of a stored transaction, whatever status method or
\* cancel request it performs.
C13_CreationFieldsKept ==
  [][\A i \in DOMAIN txs :
       /\ txs'[i].userId = txs[i].userId
       /\ txs'[i].amount = txs[i].amount
       /\ txs'[i].fees = txs[i].fees
       /\ txs'[i].totalAmount = txs[i].totalAmount
       /\ txs'[i].verificationCode = txs[i].verificationCode]_vars

\* A transaction that all five status methods were called on, cancel last.
C13_Witness ==
  \E i \in DOMAIN txs :
    /\ txs[i].status = "CANCELLED"
    /\ txs[i].verifiedAt # NoDate
    /\ txs[i].processedAt # NoDate
    /\ txs[i].completedAt # NoDate
    /\ txs[i].rejectionReason # Undefined
    /\ txs[i].verificationCode \in LifeCodes
    /\ txs[i].totalAmount.v = txs[i].amount.v + txs[i].fees.v

\* b is a with every lower-case letter replaced by its upper-case letter.
UpperOf(a, b) ==
  /\ Len(a) = Len(b)
  /\ \A i \in 1..Len(a) :
       IF a[i] \in Lower
         THEN \E k \in DOMAIN LowerSeq : LowerSeq[k] = a[i] /\ UpperSeq[k] = b[i]
         ELSE b[i] = a[i]

\* C14: a make-payment with "chasus33" or "CHASUS33" is not refused for its
\* SWIFT code, and a created transaction stores the request's code in upper
\* case ("CHASUS33" for both), a value that normalizing again leaves as it is.
C14_SwiftNormalized ==
  [][\A s \in DOMAIN slots :
       MakePaymentAnswers(s) =>
         /\ slots[s].swift \in {SwiftLower, SwiftUpper}
              => ~ReportsSwift(slots'[s].resp)
         /\ Len(txs') > Len(txs) =>
              LET stored == txs'[Len(txs')].swiftCode
              IN  /\ UpperOf(slots[s].swift, stored)
                  /\ slots[s].swift \in {SwiftLower, SwiftUpper}
                       => stored = SwiftUpper
                  /\ ToUpperCase(Trim(stored)) = stored
                  /\ \A i \in 1..Len(stored) : stored[i] \notin Lower]_vars

\* Transactions were created from a lower-case code and from a padded
\* lower-case code, and are stored in upper case.
C14_Witness ==
  /\ \E i \in DOMAIN txs : txs[i].swiftCode = SwiftUpper
  /\ \E j \in DOMAIN txs :
       txs[j].swiftCode = <<"C", "H", "A", "S", "U", "S", "3", "3", "X", "X", "X">>
  /\ \E s \in DOMAIN slots : slots[s].pc = "done" /\ slots[s].resp.code = 201

\* The response in slot s is one of GET /transactions/:id with a transaction.
IsFetched(resp) == resp.code = 200 /\ "verifiedAt" \in DOMAIN resp.data

RegisterAnswers(s) ==
  /\ auths'[s] # auths[s]
  /\ auths'[s].pc = "done"
  /\ auths'[s].resp.code \in {201, 400}

\* C16: no two stored users share an idNumber, an accountNumber or a
\* username, also after overlapping registrations; a registration of a value
\* that a stored user already has fails, and a failed one creates no user.
C16_UsersUnique ==
  [][/\ \A i, j \in DOMAIN users' :
          i # j => /\ users'[i].idNumber # users'[j].idNumber
                   /\ users'[i].accountNumber # users'[j].accountNumber
                   /\ users'[i].username # users'[j].username
     /\ \A s \in DOMAIN auths :
          /\ (/\ auths[s].pc = "reg_checked"
              /\ auths'[s].pc # "reg_checked"
              /\ ExistingUser(users, auths[s].idNumber, auths[s].accountNumber,
                              auths[s].username))
               => auths'[s].resp.code = 400
          /\ (RegisterAnswers(s) /\ auths'[s].resp.code = 400) => users' = users]_vars

\* Two overlapping registrations with the same username both found nobody;
\* one was stored and the other was refused by the store.
C16_Witness ==
  /\ Len(users) = 1
  /\ \E s1, s2 \in DOMAIN auths :
       /\ s1 # s2
       /\ auths[s1].pc = "done" /\ auths[s1].resp.code = 201
       /\ auths[s2].pc = "done" /\ auths[s2].resp.error = "Registration failed"

\* C17: with login requests processed one after another, every wrong
\* password adds one to the account's count of failures and only a successful
\* login resets it; the failure that takes the count to 5 or more locks the
\* account for the lock time; and while the lock holds, a login attempt with
\* any password, the right one included, is answered 401 and changes nothing.
C17_LockAfterFiveFailures ==
  [][/\ \A s \in DOMAIN auths :
          /\ (auths[s].pc = "login_found" /\ auths'[s].pc = "done")
               => LET i == auths[s].uid
                  IN  /\ auths'[s].resp.code = 401
                      /\ users'[i].failedLoginAttempts = users[i].failedLoginAttempts + 1
                      /\ users'[i].failedLoginAttempts >= 5
                           => /\ users'[i].lockedUntil = now + LockTicks
                              /\ IsAccountLocked(users'[i], now)
          /\ \A u \in Usernames, p \in Passwords :
               (/\ LoginFind(s, u, "1234567890", p)
                /\ \E i \in DOMAIN users :
                     users[i].username = u /\ users[i].lockedUntil # NoDate
                                           /\ users[i].lockedUntil > now)
                 => /\ auths'[s].pc = "done"
                    /\ auths'[s].resp.code = 401
                    /\ auths'[s].resp.token = NoToken
     /\ \A i \in DOMAIN users :
          /\ users'[i].failedLoginAttempts # users[i].failedLoginAttempts
               => \/ users'[i].failedLoginAttempts = users[i].failedLoginAttempts + 1
                  \/ /\ users'[i].failedLoginAttempts = 0
                     /\ \E s \in DOMAIN auths :
                          auths[s].pc = "login_found" /\ auths'[s].pc = "login_reset"
          /\ (users[i].lockedUntil # NoDate /\ users[i].lockedUntil > now)
               => /\ users'[i] = users[i]
                  /\ tokens' = tokens]_vars

\* Five wrong passwords locked the account, and a later attempt was refused
\* because of the lock, which still holds.
C17_Witness ==
  \E s \in DOMAIN auths :
    /\ users[1].failedLoginAttempts = 5
    /\ users[1].lockedUntil # NoDate
    /\ users[1].lockedUntil > now
    /\ now > users[1].lockedUntil - LockTicks
    /\ auths[s].pc = "done"
    /\ auths[s].resp.code = 401
    /\ auths[s].audit = "Account is temporarily locked"

\* The token's iat lies before the passwordChangedAt of its user.
IssuedBeforeChange(k) ==
  /\ k.userId \in DOMAIN users
  /\ k.iat * SecLen < users[k.userId].passwordChangedAt

\* Slot s takes a request with token k to the auth middleware in this step.
Presents(s, k) ==
  \/ GetMe(s, k)
  \/ \E c, n \in Passwords : ChangePasswordAuth(s, k, c, n)

\* C18: a request whose access token was issued before the user's
\* most recent password change is answered 401 by the auth middleware.
C18_StaleTokenGets401 ==
  [][\A s \in DOMAIN auths, k \in tokens :
       (Presents(s, k) /\ IssuedBeforeChange(k))
         => auths'[s].pc = "done" /\ auths'[s].resp.code = 401]_vars

\* C19: a forgot-password request that names an existing active account gets
\* the response, status and body, that a request naming no account gets.
C19_ForgotPasswordSameResponse ==
  [][\A s \in DOMAIN auths, u1, u2 \in Usernames :
       (/\ ForgotPassword(s, u1, "1234567890")
        /\ FindByCredentials(users, u1, "1234567890") # 0
        /\ FindByCredentials(users, u2, "1234567890") = 0)
         => /\ auths'[s].resp.code =
                 ForgotPasswordResponse(users, u2, "1234567890", now).code
            /\ auths'[s].resp.message =
                 ForgotPasswordResponse(users, u2, "1234567890", now).message]_vars

\* The user's transactions in a counted status created in [today, today +
\* one day).
CountedInDay(userId, today) ==
  {i \in DOMAIN txs :
     /\ txs[i].userId = userId
     /\ txs[i].status \in {"PENDING", "VERIFIED", "PROCESSING", "COMPLETED"}
     /\ today <= txs[i].createdAt
     /\ txs[i].createdAt < today + DayLen}

\* C20: the sum the daily-limit query returns is the sum of the user's counted
\* transactions created from the midnight the handler computed up to, but not
\* including, the next midnight.
C20_DayIntervalHalfOpen ==
  [][\A s \in DOMAIN slots :
       (slots[s].pc = "mp_begun" /\ slots'[s].pc = "mp_found")
         => slots'[s].todayTotal = Num(SumOf(CountedInDay(slots[s].user, slots[s].today)))]_vars

\* C21: with one operation after another, the amounts of a user's
\* transactions of one day in a counted status never sum to more than the
\* daily limit.
C21_DailySumWithinLimit ==
  \A u \in Users, t \in 0..now : SumOf(CountedToday(u, t)) <= dailyLimit

\* The store holds transaction id and its owner is not userId.
OwnedByOther(userId, id) == id \in DOMAIN txs /\ txs[id].userId # userId

\* C22: a GET or cancel request for a transaction of another user is answered
\* 404 'Transaction not found' with no data, the answer a request for an id
\* the store does not hold gets, and it leaves the store unchanged; and a
\* stored transaction changes only by the cancel request of its owner.
C22_OnlyOwnTransactions ==
  [][/\ \A s \in DOMAIN slots, u \in Users, id \in 1..(Len(txs) + 1) :
          (/\ OwnedByOther(u, id) \/ id \notin DOMAIN txs
           /\ GetTransaction(s, u, id) \/ CancelFind(s, u, id))
            => /\ slots'[s].pc = "done"
               /\ slots'[s].resp = Resp(404, "Transaction not found", 0)
               /\ txs' = txs
     /\ \A id \in DOMAIN txs :
          txs'[id] # txs[id]
            => \E s \in DOMAIN slots :
                 /\ slots[s].pc = "cancel_found"
                 /\ slots[s].id = id
                 /\ slots[s].user = txs[id].userId]_vars

\* A request for a PENDING transaction of another user was answered 404, and
\* the transaction is still PENDING.
C22_Witness ==
  \E s \in DOMAIN slots :
    /\ slots[s].pc = "done"
    /\ slots[s].resp.code = 404
    /\ OwnedByOther(slots[s].user, slots[s].id)
    /\ txs[slots[s].id].status = "PENDING"

\* C23: a transaction in status CANCELLED has no verifiedAt, also when the
\* owner's cancel request overlaps with the verification of the transaction.
C23_CancelledNeverVerified ==
  \A i \in DOMAIN txs : txs[i].status = "CANCELLED" => txs[i].verifiedAt = NoDate

\* Slot s answers its login request with 200 in this step.
LoginSucceeds(s) ==
  /\ auths[s].pc = "login_reset"
  /\ auths'[s].pc = "done"
  /\ auths'[s].resp.code = 200

\* C24: when a login succeeds the account has failedLoginAttempts 0 and no
\* lockedUntil; the counter changes only by one more failure or by that
\* reset, and a lock is set only with the counter at five or more.
C24_SuccessResetsFailures ==
  [][/\ \A s \in DOMAIN auths :
          LoginSucceeds(s)
            => /\ users'[auths[s].uid].failedLoginAttempts = 0
               /\ users'[auths[s].uid].lockedUntil = NoDate
     /\ \A i \in DOMAIN users :
          /\ users'[i].failedLoginAttempts # users[i].failedLoginAttempts
               => \/ users'[i].failedLoginAttempts = users[i].failedLoginAttempts + 1
                  \/ users'[i].failedLoginAttempts = 0
          /\ (users'[i].lockedUntil # users[i].lockedUntil
              /\ users'[i].lockedUntil # NoDate)
               => users'[i].failedLoginAttempts >= maxAttempts]_vars

\* After a lock had run out a login succeeded: the counter is 0, the lock is
\* cleared, and the response carries a token.
C24_Witness ==
  \E s \in DOMAIN auths :
    /\ auths[s].pc = "done"
    /\ auths[s].resp.code = 200
    /\ auths[s].resp.token # NoToken
    /\ now >= LockTicks
    /\ users[1].lastLoginAt = now
    /\ users[1].failedLoginAttempts = 0
    /\ users[1].lockedUntil = NoDate

\* C25: every login request that fails on the password adds one to the
\* stored failedLoginAttempts, also when login requests for the account
\* overlap.
C25_EveryFailureCounted ==
  [][\A s \in DOMAIN auths :
       (/\ auths[s].pc = "login_found"
        /\ auths'[s].pc = "done"
        /\ auths'[s].resp.code = 401)
         => users'[auths[s].uid].failedLoginAttempts
              = users[auths[s].uid].failedLoginAttempts + 1]_vars

\* C26: a token that register returned, issued right after the user's
\* password hash was first saved, is let through by the auth middleware on a
\* later request as long as it has not expired.
C26_FreshTokenAccepted ==
  [][\A s \in DOMAIN auths, k \in tokens :
       (GetMe(s, k) /\ now \div SecLen < k.exp)
         => /\ auths'[s].resp.code = 200
            /\ auths'[s].uid = k.userId]_vars

\* C27: for one call of the API the client sends at most one refresh
\* request and sends the original request at most twice, whatever the server
\* answers, a 401 to the refresh request included.
C27_OneRefreshOneRetry ==
  client.refreshCalls <= 1 /\ client.sends <= 2

====
